---- MODULE Spec2Model ----
(***************************************************************************)
(* A model of scripts/check_rubrik_backups.py: the Rubrik backup checker.  *)
(*                                                                         *)
(* Text is modelled as a sequence of one-character strings, so that        *)
(* lower-casing and substring containment are computed, not assumed.       *)
(* A calendar instant is modelled in hours; a UTC date is a day number.    *)
(***************************************************************************)
EXTENDS Integers, Sequences, FiniteSets, TLC

\* ------------------------------------------------------------------ bounds
MaxNameLen == 3     \* longest name the backup system returns (matcher inputs)
MaxServerLen == 2   \* longest requested server name (matcher inputs)
MaxTick == 1        \* UTC midnights that may pass while one run executes
MaxSnaps == 2       \* most snapshots one snapshot query returns

\* ------------------------------------------------------------------- text
Alphabet == {"h", "H", "1", "a"}

NA == <<"n", "/", "a">>

Sep == <<",", " ">>

StrUpTo(n) == UNION {[1..k -> Alphabet] : k \in 0..n}

LowerChar(c) == CASE c = "H" -> "h" [] c = "A" -> "a" [] OTHER -> c

Lower(s) == [i \in 1..Len(s) |-> LowerChar(s[i])]

\* Python's `s in t` on strings: s occurs in t as a contiguous run.
PyIn(s, t) == \E i \in 0..(Len(t) - Len(s)) : SubSeq(t, i + 1, i + Len(s)) = s

RECURSIVE Join(_)
Join(names) ==
  IF Len(names) = 0 THEN <<>>
  ELSE IF Len(names) = 1 THEN names[1]
  ELSE names[1] \o Sep \o Join(Tail(names))

\* A physicalPath field as the backup system returns it.
\*   kind "null": absent, null, or an empty list/dict (falsy)
\*   kind "dict": one object; names is <<name>>, or <<>> when it has no "name" key
\*   kind "list": a non-empty list of objects with names
\*   kind "bad" : a shape whose access raises (a null name, a non-object element)
PathNames == {<<"h", "1">>, <<"H", "a">>}

PathFields ==
  {[kind |-> "null", names |-> <<>>], [kind |-> "bad", names |-> <<>>],
   [kind |-> "dict", names |-> <<>>]}
  \cup {[kind |-> "dict", names |-> <<n>>] : n \in PathNames}
  \cup {[kind |-> "list", names |-> <<n>>] : n \in PathNames}
  \cup {[kind |-> "list", names |-> <<n, m>>] : n \in PathNames, m \in PathNames}

_safe_path_string(f) ==
  IF f.kind = "null" THEN NA
  ELSE IF f.kind = "bad" THEN NA
  ELSE IF f.kind = "list" THEN Lower(Join(f.names))
  ELSE IF Len(f.names) = 0 THEN Lower(NA)
  ELSE Lower(f.names[1])

fuzzy_match_server_only(server, fileset) == PyIn(Lower(server), fileset.server)

fuzzy_match(server, fileset) ==
  LET s == Lower(server)
  IN  PyIn(s, fileset.server) \/ PyIn(s, fileset.path)

\* A child node of a fileset template as the backup system returns it; hasName
\* is FALSE when "name" is null or missing, id is "" when "id" is null/missing,
\* sla is "" when effectiveSlaDomain is null or has no "name".
FilesetEntry(child, fs_name, cluster, type) ==
  [snappable_id |-> child.id,
   server |-> IF child.hasName /\ Len(child.name) > 0 THEN Lower(child.name) ELSE Lower(NA),
   fileset |-> fs_name,
   cluster |-> cluster,
   sla |-> IF child.sla = "" THEN "N/A" ELSE child.sla,
   path |-> _safe_path_string(child.path),
   type |-> type,
   req |-> <<>>,
   hasReq |-> FALSE]

\* ------------------------------------------------------- the query client
\* Python's None, and every value a query hands back, is a record of one shape.
None == [shape |-> "none", edges |-> <<>>]

\* What one HTTP POST to /api/graphql can come to: an exception of the transport
\* (exc), else a response with a status and a body. The body is "unparsable"
\* (not JSON) or a JSON value of one of these shapes, written for the key K the
\* caller reads under "data":
\*   "jsonnull"  null                      "nodata"    {}
\*   "datanull"  {"data": null}            "nokey"     {"data": {}}
\*   "keynull"   {"data": {K: null}}       "edgesnull" {"data": {K: {"edges": null}}}
\*   "edges"     {"data": {K: {"edges": [...]}}}
Outcome(exc, status, shape, edges) ==
  [exc |-> exc, status |-> status, shape |-> shape, edges |-> edges]

FailOutcomes ==
  {Outcome("Timeout", 0, "none", <<>>), Outcome("ConnectionError", 0, "none", <<>>),
   Outcome("none", 500, "unparsable", <<>>), Outcome("none", 200, "unparsable", <<>>)}

EmptyShapes == {"jsonnull", "nodata", "datanull", "nokey", "keynull", "edgesnull"}

Outcomes(edgeSeqs) ==
  FailOutcomes
  \cup {Outcome("none", 200, sh, <<>>) : sh \in EmptyShapes}
  \cup {Outcome("none", 200, "edges", e) : e \in edgeSeqs}
  \cup {Outcome("none", 500, "edges", e) : e \in edgeSeqs}

\* Rubrik.q: the value returned, and whether an exception escapes to the caller.
q_no_status_check(out) ==
  IF out.exc # "none" THEN [ret |-> None, escaped |-> FALSE]
  ELSE IF out.shape \in {"unparsable", "jsonnull"} THEN [ret |-> None, escaped |-> FALSE]
  ELSE [ret |-> [shape |-> out.shape, edges |-> out.edges], escaped |-> FALSE]

q(out) ==
  IF out.exc = "Timeout" THEN [ret |-> None, escaped |-> FALSE]
  ELSE IF out.exc # "none" THEN [ret |-> None, escaped |-> FALSE]
  ELSE IF out.status # 200 THEN [ret |-> None, escaped |-> FALSE]
  ELSE IF out.shape = "unparsable" THEN [ret |-> None, escaped |-> FALSE]
  ELSE IF out.shape = "jsonnull" THEN [ret |-> None, escaped |-> FALSE]
  ELSE [ret |-> [shape |-> out.shape, edges |-> out.edges], escaped |-> FALSE]

\* payload.get("data", {}).get(K, {}).get("edges", []) if payload else [], then
\* iterated by a for loop: the edges, or raised when an access or the loop raises.
EdgesOrRaise(p) ==
  IF p.shape \in {"none", "nodata", "nokey"} THEN [raised |-> FALSE, edges |-> <<>>]
  ELSE IF p.shape = "edges" THEN [raised |-> FALSE, edges |-> p.edges]
  ELSE [raised |-> TRUE, edges |-> <<>>]

\* conn = snaps.get("data", {}).get("snapshotsListConnection") if snaps else None
\* edges = (conn or {}).get("edges", []) if conn else []
\* A null or absent edge list is falsy and gives "no snapshots".
SnapshotEdges(p) ==
  IF p.shape = "datanull" THEN [raised |-> TRUE, edges |-> <<>>]
  ELSE IF p.shape = "edges" THEN [raised |-> FALSE, edges |-> p.edges]
  ELSE [raised |-> FALSE, edges |-> <<>>]

\* ---------------------------------------------------------------- snapshots
Days == 1..3

Hours == {3, 21}

Offsets == {-5, 5}

\* The "date" field of a snapshot node: absent/null, a string that is no ISO
\* timestamp, or a timestamp ending in "Z", in a numeric offset, or in nothing.
DateField(form, day, hour, off) == [form |-> form, day |-> day, hour |-> hour, off |-> off]

AllDates ==
  {DateField("absent", 0, 0, 0), DateField("malformed", 0, 0, 0)}
  \cup {DateField(f, d, h, 0) : f \in {"Z", "naive"}, d \in Days, h \in Hours}
  \cup {DateField("offset", d, h, o) : d \in Days, h \in Hours, o \in Offsets}

\* datetime.fromisoformat(dt.replace("Z", "+00:00")) inside try/except: ok is
\* FALSE when it raised (snap_dt = None); else the wall-clock fields as written
\* and the offset (aware) or none (naive).
ParseSnapshotDate(d) ==
  IF d.form \in {"absent", "malformed"}
  THEN [ok |-> FALSE, day |-> 0, hour |-> 0, aware |-> FALSE, off |-> 0]
  ELSE [ok |-> TRUE, day |-> d.day, hour |-> d.hour,
        aware |-> d.form # "naive", off |-> IF d.form = "offset" THEN d.off ELSE 0]

\* snap_dt.strftime("%Y-%m-%d %H:%M:%S UTC"), or the text "N/A".
Stamp(na, day, hour) == [na |-> na, day |-> day, hour |-> hour]

NoStamp == Stamp(TRUE, 0, 0)

\* days_diff = (now.date() - snap_dt.date()).days; "YES" if days_diff in (0, 1)
FreshStatus(nowDay, snapDay) == IF (nowDay - snapDay) \in {0, 1} THEN "YES" ELSE "NO"

SnapNode(date, sla) == [date |-> date, sla |-> sla]

latest_snapshot_empty_is_current(payload, nowDay) ==
  LET se == SnapshotEdges(payload)
      edges == se.edges
      latest == edges[1]
      sla_name == IF latest.sla = "" THEN "N/A" ELSE latest.sla
      snap_dt == ParseSnapshotDate(latest.date)
  IN  IF se.raised
      THEN [raised |-> TRUE, status |-> "NO", dt_str |-> NoStamp, count |-> 0, sla |-> "N/A"]
      ELSE IF Len(edges) = 0
      THEN [raised |-> FALSE, status |-> "YES", dt_str |-> NoStamp, count |-> 0, sla |-> "N/A"]
      ELSE IF ~snap_dt.ok
      THEN [raised |-> FALSE, status |-> "NO", dt_str |-> NoStamp,
            count |-> Len(edges), sla |-> sla_name]
      ELSE [raised |-> FALSE, status |-> FreshStatus(nowDay, snap_dt.day),
            dt_str |-> Stamp(FALSE, snap_dt.day, snap_dt.hour),
            count |-> Len(edges), sla |-> sla_name]

\* latest_snapshot_after_cutoff after the query: (status, dt_str, count, sla_name)
\* from the payload and the clock read at that moment; raised when it raises.
latest_snapshot_after_cutoff(payload, nowDay) ==
  LET se == SnapshotEdges(payload)
      edges == se.edges
      latest == edges[1]
      sla_name == IF latest.sla = "" THEN "N/A" ELSE latest.sla
      snap_dt == ParseSnapshotDate(latest.date)
  IN  IF se.raised
      THEN [raised |-> TRUE, status |-> "NO", dt_str |-> NoStamp, count |-> 0, sla |-> "N/A"]
      ELSE IF Len(edges) = 0
      THEN [raised |-> FALSE, status |-> "NO", dt_str |-> NoStamp, count |-> 0, sla |-> "N/A"]
      ELSE IF ~snap_dt.ok
      THEN [raised |-> FALSE, status |-> "NO", dt_str |-> NoStamp,
            count |-> Len(edges), sla |-> sla_name]
      ELSE [raised |-> FALSE, status |-> FreshStatus(nowDay, snap_dt.day),
            dt_str |-> Stamp(FALSE, snap_dt.day, snap_dt.hour),
            count |-> Len(edges), sla |-> sla_name]

\* ------------------------------------------------------------- environment
\* The environment variables and the file system one run starts in.
DefaultListPath == "L2Backup/serverslist5"

Config(cid, csecret, slp, fsp, vmp, missing) ==
  [RUBRIK_CLIENT_ID |-> cid, RUBRIK_CLIENT_SECRET |-> csecret,
   SERVER_LIST_PATH |-> slp, FILESET_SERVER_LIST_PATH |-> fsp,
   VMSNAPSHOT_SERVER_LIST_PATH |-> vmp, missing |-> missing]

BaseConfig == Config(TRUE, TRUE, "shared.txt", "", "", {DefaultListPath})

\* "" is an unset variable; missing is the set of paths at which no file exists.
Configs ==
  {BaseConfig,
   Config(TRUE, TRUE, "", "", "", {"shared.txt"}),
   Config(TRUE, TRUE, "shared.txt", "fs.txt", "vm.txt", {}),
   Config(TRUE, TRUE, "shared.txt", "shared.txt", "shared.txt", {"fs.txt", "vm.txt"}),
   Config(FALSE, TRUE, "shared.txt", "", "", {}),
   Config(TRUE, FALSE, "shared.txt", "", "", {}),
   Config(FALSE, FALSE, "", "", "", {}),
   Config(TRUE, TRUE, "shared.txt", "", "", {"shared.txt"}),
   Config(TRUE, TRUE, "", "", "", {DefaultListPath}),
   Config(TRUE, TRUE, "shared.txt", "fs.txt", "", {"fs.txt"}),
   Config(TRUE, TRUE, "shared.txt", "", "vm.txt", {"vm.txt"})}

\* The lines of the server-list files (a line may be empty, and in any case).
SharedLists ==
  {<< <<"H", "1">> >>,
   << <<"h", "1">>, <<"h", "1", "a">> >>,
   << <<"1", "h">>, <<>>, <<"a">> >>}

OverrideList(path) ==
  IF path = "fs.txt" THEN << <<"h", "a">> >> ELSE << <<"H", "1", "a">> >>

load_server_list_unchecked(path, missing, lines) ==
  IF path = "" THEN [ok |-> FALSE, entries |-> <<>>]
  ELSE [ok |-> TRUE,
        entries |-> IF path \in missing THEN <<>>
                    ELSE LET kept == SelectSeq(lines, LAMBDA l : Len(l) > 0)
                         IN  [i \in 1..Len(kept) |-> Lower(kept[i])]]

\* load_server_list: ok is FALSE when it raises SystemExit; entries are the
\* non-empty lines, lower-cased.
load_server_list(path, missing, lines) ==
  IF path = "" THEN [ok |-> FALSE, entries |-> <<>>]
  ELSE IF path \in missing THEN [ok |-> FALSE, entries |-> <<>>]
  ELSE [ok |-> TRUE,
        entries |-> LET kept == SelectSeq(lines, LAMBDA l : Len(l) > 0)
                    IN  [i \in 1..Len(kept) |-> Lower(kept[i])]]

\* What the backup system holds: children of fileset templates, SLA domains,
\* protected objects and snapshots.
Child(id, hasName, name, sla, path) ==
  [id |-> id, hasName |-> hasName, name |-> name, sla |-> sla, path |-> path]

ChildA == Child("f1", TRUE, <<"H", "1", "a">>, "", [kind |-> "dict", names |-> << <<"h", "1">> >>])

ChildB == Child("f2", TRUE, <<"h", "1">>, "Silver", [kind |-> "null", names |-> <<>>])

ChildC == Child("", FALSE, <<>>, "", [kind |-> "list", names |-> << <<"H", "a">> >>])

Template(name, cluster, children) == [name |-> name, cluster |-> cluster, children |-> children]

WindowsEdges(e) ==
  IF e = "fresh" THEN {<<Template("tw", "c1", <<ChildA>>)>>}
  ELSE {<<Template("tw", "c1", <<ChildA, ChildB>>)>>}

LinuxEdges(e) == {<<Template("tl", "c2", <<ChildC>>)>>}

SlaEdges(e) == {<<[id |-> ""], [id |-> "s1"]>>}

ObjectEdges(e) ==
  {<<[name |-> <<>>, id |-> "v9"], [name |-> <<"h", "1", "a">>, id |-> "v2"],
     [name |-> <<"a">>, id |-> ""]>>}

\* The dates the newest snapshot of a snappable may carry.
FirstDates(e) ==
  IF e = "fresh" THEN AllDates
  ELSE {DateField("malformed", 0, 0, 0), DateField("Z", 2, 21, 0)}

SlaNames(e) == IF e = "fresh" THEN {"", "Gold"} ELSE {"Gold"}

SnapCounts(e) == IF e = "fresh" THEN 0..(MaxSnaps - 1) ELSE {MaxSnaps - 1}

OlderNode == SnapNode(DateField("Z", 1, 3, 0), "Gold")

\* Snapshot edge lists, newest first: none, or a newest node followed by older ones.
SnapEdgeSeqs(e) ==
  {<<>>}
  \cup {<<SnapNode(d, s)>> \o [i \in 1..k |-> OlderNode] :
          d \in FirstDates(e), s \in SlaNames(e), k \in SnapCounts(e)}

\* The UTC date on which a run may start.
StartDays == {2}

\* ------------------------------------------------------------------- state
VARIABLES
  env,                \* which inputs this run may meet: "run" or "fresh"
  cfg,                \* environment variables and missing files
  shared_lines,       \* the lines of the shared server-list file
  clock,              \* the current UTC date (a day number)
  pc,                 \* where main() is
  exit_code,          \* -1 while running, else the process's exit status
  fileset_serverlist, snapshot_serverlist,
  tok,                \* Rubrik.tok: "unset", "None" or "T"
  auth_posts,         \* POSTs sent to /api/client_token
  nsent, ncalls,      \* POSTs sent to /api/graphql, calls of Rubrik.q
  all_filesets,       \* fetch_all_filesets: the list of fileset entries
  matches,            \* check_filesets: references (indices) into all_filesets
  fs_i,               \* check_filesets: index of the next match to evaluate
  fileset_results,
  sla_edges, sla_i, idmap,   \* build_vm_object_index
  vm_now,             \* check_vm_snapshots: now.date(), read once on entry
  vm_i, vm_results,
  written,            \* the output artifacts written so far
  fs_report, vm_report,      \* the records of the two reports as written
  fs_summary, vm_summary,    \* what summarize printed
  fs_obs, vm_obs,     \* per result record: what was evaluated, and when
  m_pc, m_server, m_child, m_entry, m_result,  \* the matcher on its own
  q_pc, q_out, q_res, q_posts,                 \* one call of Rubrik.q on its own
  ui_cfg,             \* utils.storage and the environment: token, backend, wallet URLs
  entered,            \* the settings screen has been entered (on_pre_enter ran)
  s_user,             \* the user profile held by utils.storage
  srv_user,           \* the user profile held by the backend
  profile_image,      \* SettingsScreen.profile_image
  _original_upi, _original_paypal,
  wallet_label,       \* the text of ids.wallet_label
  otp_dialog,         \* the "OTP Verification" popup: open, payload, status label
  workers,            \* every thread started so far, in the order started
  clockq,             \* callbacks given to Clock.schedule_once(.., 0), oldest first
  ui_log,             \* what a worker's outcome put on screen, and from which thread
  sent                \* the HTTP requests made by the workers

runVars ==
  <<env, cfg, shared_lines, clock, pc, exit_code, fileset_serverlist,
    snapshot_serverlist, tok, auth_posts, nsent, ncalls, all_filesets, matches,
    fs_i, fileset_results, sla_edges, sla_i, idmap, vm_now, vm_i, vm_results, written,
    fs_report, vm_report, fs_summary, vm_summary, fs_obs, vm_obs>>

matchVars == <<m_pc, m_server, m_child, m_entry, m_result>>

queryVars == <<q_pc, q_out, q_res, q_posts>>

uiVars ==
  <<ui_cfg, entered, s_user, srv_user, profile_image, _original_upi, _original_paypal,
    wallet_label, otp_dialog, workers, clockq, ui_log, sent>>

vars == <<runVars, matchVars, queryVars, uiVars>>

\* ------------------------------------------------- settings screen: data
\* Threads started in one visit of the screen (on_pre_enter starts two).
MaxSpawns == 4

\* verify_and_save, line 271: len(otp_code) < 4 is refused.
MinOtpLen == 4

\* A user profile (the JSON object of /users/me, and what storage keeps). An
\* absent key and an empty value read the same through user.get(k) or "".
Profile(image, upi, paypal, phone, balance) ==
  [profile_image |-> image, upi_id |-> upi, paypal_id |-> paypal, phone |-> phone,
   wallet_balance |-> balance]

\* storage.get_user() or {}
EmptyUser == Profile("", <<>>, <<>>, "", "")

\* The profile the backend holds when the screen is first entered.
Profile0 == Profile("img0", <<"u">>, <<>>, "5", "5")

\* storage.get_token(), storage.get_backend_url(), storage.get_wallet_url() and
\* the WALLET_WEB_URL environment variable; "" is None or empty.
UiConfig(token, backend, custom, web) ==
  [token |-> token, backend |-> backend, custom |-> custom, WALLET_WEB_URL |-> web]

UiConfigs ==
  {UiConfig("tk", "http://h/api/", "", ""), UiConfig("", "http://h/api/", "", ""),
   UiConfig("tk", "", "", ""), UiConfig("tk", "", "http://w/", ""),
   UiConfig("tk", "", "", "http://e")}

\* The payload of save_settings; a key that is not in the dict is "" here.
Payload(name, description, upi, paypal) ==
  [name |-> name, description |-> description, upi_id |-> upi, paypal_id |-> paypal]

NoPayload == Payload(<<>>, <<>>, <<>>, <<>>)

ClosedDialog == [open |-> FALSE, payload |-> NoPayload, status |-> ""]

UiIdle ==
  /\ ui_cfg = UiConfig("", "", "", "") /\ entered = FALSE
  /\ s_user = EmptyUser /\ srv_user = EmptyUser
  /\ profile_image = "assets/default.png"
  /\ _original_upi = <<>> /\ _original_paypal = <<>>
  /\ wallet_label = "" /\ otp_dialog = ClosedDialog
  /\ workers = <<>> /\ clockq = <<>> /\ ui_log = {} /\ sent = {}

NoSummary == [total |-> 0, success |-> 0, failed |-> 0, printed |-> FALSE]

NoEntry == FilesetEntry(Child("", FALSE, <<>>, "", [kind |-> "null", names |-> <<>>]), "", "", "")

RunIdle ==
  /\ env = "run" /\ cfg = Config(FALSE, FALSE, "", "", "", {}) /\ shared_lines = <<>>
  /\ clock = 2 /\ pc = "idle" /\ exit_code = -1
  /\ fileset_serverlist = <<>> /\ snapshot_serverlist = <<>>
  /\ tok = "unset" /\ auth_posts = 0 /\ nsent = 0 /\ ncalls = 0
  /\ all_filesets = <<>> /\ matches = <<>> /\ fs_i = 1 /\ fileset_results = <<>>
  /\ sla_edges = <<>> /\ sla_i = 1 /\ idmap = <<>> /\ vm_now = 0
  /\ vm_i = 1 /\ vm_results = <<>> /\ written = {}
  /\ fs_report = <<>> /\ vm_report = <<>>
  /\ fs_summary = NoSummary /\ vm_summary = NoSummary
  /\ fs_obs = <<>> /\ vm_obs = <<>>

MatchIdle ==
  /\ m_pc = "idle" /\ m_server = <<>> /\ m_entry = NoEntry /\ m_result = FALSE
  /\ m_child = Child("", FALSE, <<>>, "", [kind |-> "null", names |-> <<>>])

QueryIdle ==
  /\ q_pc = "idle" /\ q_out = Outcome("none", 0, "none", <<>>)
  /\ q_res = [ret |-> None, escaped |-> FALSE] /\ q_posts = 0

\* The state main() starts in: nothing loaded, nothing sent, nothing written.
RunStart(e, lists) ==
  /\ env = e /\ cfg \in Configs /\ shared_lines \in lists
  /\ (e = "fresh" => cfg = BaseConfig)
  /\ (cfg # BaseConfig => shared_lines = << <<"H", "1">> >>)
  /\ clock \in StartDays /\ pc = "load" /\ exit_code = -1
  /\ fileset_serverlist = <<>> /\ snapshot_serverlist = <<>>
  /\ tok = "unset" /\ auth_posts = 0 /\ nsent = 0 /\ ncalls = 0
  /\ all_filesets = <<>> /\ matches = <<>> /\ fs_i = 1 /\ fileset_results = <<>>
  /\ sla_edges = <<>> /\ sla_i = 1 /\ idmap = <<>> /\ vm_now = 0
  /\ vm_i = 1 /\ vm_results = <<>> /\ written = {}
  /\ fs_report = <<>> /\ vm_report = <<>>
  /\ fs_summary = NoSummary /\ vm_summary = NoSummary
  /\ fs_obs = <<>> /\ vm_obs = <<>>

Init == RunStart("run", SharedLists) /\ MatchIdle /\ QueryIdle /\ UiIdle

InitFresh == RunStart("fresh", {<< <<"H", "1", "a">> >>}) /\ MatchIdle /\ QueryIdle /\ UiIdle

\* An uncaught exception, or SystemExit: the process ends with status 1.
Abort ==
  /\ pc' = "exit"
  /\ exit_code' = 1

\* main, lines 449-459: the three server lists.
LoadServerLists ==
  /\ pc = "load"
  /\ LET shared_path == IF cfg.SERVER_LIST_PATH # "" THEN cfg.SERVER_LIST_PATH
                        ELSE DefaultListPath
         shared == load_server_list(shared_path, cfg.missing, shared_lines)
         fsp == cfg.FILESET_SERVER_LIST_PATH
         vmp == cfg.VMSNAPSHOT_SERVER_LIST_PATH
         fs_over == fsp # "" /\ fsp # shared_path
         vm_over == vmp # "" /\ vmp # shared_path
         fsl == IF fs_over THEN load_server_list(fsp, cfg.missing, OverrideList(fsp))
                ELSE shared
         vml == IF vm_over THEN load_server_list(vmp, cfg.missing, OverrideList(vmp))
                ELSE shared
     IN  IF shared.ok /\ fsl.ok /\ vml.ok
         THEN /\ fileset_serverlist' = fsl.entries
              /\ snapshot_serverlist' = vml.entries
              /\ pc' = "client"
              /\ UNCHANGED exit_code
         ELSE /\ Abort
              /\ UNCHANGED <<fileset_serverlist, snapshot_serverlist>>
  /\ UNCHANGED <<env, cfg, shared_lines, clock, tok, auth_posts, nsent, ncalls,
                 all_filesets, matches, fs_i, fileset_results, sla_edges, sla_i, idmap,
                 vm_now, vm_i, vm_results, written, fs_report, vm_report, fs_summary,
                 vm_summary, fs_obs, vm_obs, matchVars, queryVars, uiVars>>

\* What the POST to /api/client_token can come to.
AuthOutcomes == {"timeout", "conn", "http_error", "unparsable", "no_token", "token"}

\* Rubrik._auth: the token, or raised (SystemExit(1)).
_auth(outcome) ==
  IF outcome = "token" THEN [raised |-> FALSE, tok |-> "T"]
  ELSE IF outcome = "no_token" THEN [raised |-> FALSE, tok |-> "None"]
  ELSE [raised |-> TRUE, tok |-> "unset"]

\* Rubrik.__init__, lines 66-72: the credentials check, then _auth.
RubrikInit ==
  /\ pc = "client"
  /\ IF ~cfg.RUBRIK_CLIENT_ID \/ ~cfg.RUBRIK_CLIENT_SECRET
     THEN Abort /\ UNCHANGED <<tok, auth_posts>>
     ELSE \E outcome \in AuthOutcomes :
            /\ auth_posts' = auth_posts + 1
            /\ IF _auth(outcome).raised
               THEN Abort /\ UNCHANGED tok
               ELSE /\ tok' = _auth(outcome).tok
                    /\ pc' = "fetch_win"
                    /\ UNCHANGED exit_code
  /\ UNCHANGED <<env, cfg, shared_lines, clock, fileset_serverlist, snapshot_serverlist,
                 nsent, ncalls, all_filesets, matches, fs_i, fileset_results,
                 sla_edges, sla_i, idmap, vm_now, vm_i, vm_results, written, fs_report,
                 vm_report, fs_summary, vm_summary, fs_obs, vm_obs, matchVars, queryVars, uiVars>>

\* requests.post is called once in Rubrik.q: no loop, no retry on any outcome.
PostsPerCall(out) == 1

\* One call of Rubrik.q whose HTTP request comes to `out`.
Call(out) ==
  /\ nsent' = nsent + PostsPerCall(out)
  /\ ncalls' = ncalls + 1

\* The two nested loops of fetch_all_filesets over template edges and children.
RECURSIVE ChildEntries(_, _, _, _)
ChildEntries(children, fs_name, cluster, type) ==
  IF Len(children) = 0 THEN <<>>
  ELSE <<FilesetEntry(Head(children), fs_name, cluster, type)>>
       \o ChildEntries(Tail(children), fs_name, cluster, type)

RECURSIVE TemplateEntries(_, _)
TemplateEntries(edges, type) ==
  IF Len(edges) = 0 THEN <<>>
  ELSE ChildEntries(Head(edges).children, Head(edges).name, Head(edges).cluster, type)
       \o TemplateEntries(Tail(edges), type)

\* One half of fetch_all_filesets: the template query for one platform and the
\* entries appended for it.
FetchTemplates(at, next, edgeSeqs, type) ==
  /\ pc = at
  /\ \E out \in Outcomes(edgeSeqs) :
       LET er == EdgesOrRaise(q(out).ret)
       IN  /\ Call(out)
           /\ IF q(out).escaped \/ er.raised
              THEN Abort /\ UNCHANGED all_filesets
              ELSE /\ all_filesets' = all_filesets \o TemplateEntries(er.edges, type)
                   /\ pc' = next
                   /\ UNCHANGED exit_code
  /\ UNCHANGED <<env, cfg, shared_lines, clock, fileset_serverlist, snapshot_serverlist,
                 tok, auth_posts, matches, fs_i, fileset_results, sla_edges, sla_i, idmap,
                 vm_now, vm_i, vm_results, written, fs_report, vm_report, fs_summary,
                 vm_summary, fs_obs, vm_obs, matchVars, queryVars, uiVars>>

FetchWindows == FetchTemplates("fetch_win", "fetch_lin", WindowsEdges(env), "WINDOWS_FILESET")

FetchLinux == FetchTemplates("fetch_lin", "dump", LinuxEdges(env), "LINUX_FILESET")

\* check_filesets, lines 255-258: the audit dump of every indexed fileset.
DumpFilesets ==
  /\ pc = "dump"
  /\ written' = written \cup {"dump"}
  /\ pc' = "match"
  /\ UNCHANGED <<env, cfg, shared_lines, clock, exit_code, fileset_serverlist,
                 snapshot_serverlist, tok, auth_posts, nsent, ncalls, all_filesets,
                 matches, fs_i, fileset_results, sla_edges, sla_i, idmap, vm_now, vm_i,
                 vm_results, fs_report, vm_report, fs_summary, vm_summary, fs_obs,
                 vm_obs, matchVars, queryVars, uiVars>>

\* check_filesets, lines 260-267. matches holds references to the dicts of
\* all_filesets, so match["_requested_server"] = srv writes the indexed entry.
RECURSIVE MatchLoop(_, _, _, _)
MatchLoop(serverlist, k, all, ms) ==
  IF k > Len(serverlist) THEN [all |-> all, matches |-> ms]
  ELSE LET srv == serverlist[k]
           srv_matches == SelectSeq([i \in 1..Len(all) |-> i],
                                    LAMBDA i : fuzzy_match(srv, all[i]))
           marked == [i \in 1..Len(all) |->
                        IF fuzzy_match(srv, all[i])
                        THEN [all[i] EXCEPT !.req = srv, !.hasReq = TRUE]
                        ELSE all[i]]
       IN  MatchLoop(serverlist, k + 1, marked, ms \o srv_matches)

MatchServers ==
  /\ pc = "match"
  /\ LET m == MatchLoop(fileset_serverlist, 1, all_filesets, <<>>)
     IN  /\ all_filesets' = m.all
         /\ matches' = m.matches
  /\ fs_i' = 1
  /\ pc' = "fs_loop"
  /\ UNCHANGED <<env, cfg, shared_lines, clock, exit_code, fileset_serverlist,
                 snapshot_serverlist, tok, auth_posts, nsent, ncalls,
                 fileset_results, sla_edges, sla_i, idmap, vm_now, vm_i, vm_results,
                 written, fs_report, vm_report, fs_summary, vm_summary, fs_obs, vm_obs,
                 matchVars, queryVars, uiVars>>

\* fs.get("_requested_server", fs.get("server", "n/a"))
ServerDisplay(fs) == IF fs.hasReq THEN fs.req ELSE fs.server

\* fs.get("sla", sla_name): fetch_all_filesets gives every entry an "sla" key
\* ("N/A" when the child has no effective SLA domain), so the default is unused.
EntrySla(fs, sla_name) == fs.sla

\* What a result record was made from: whether a snapshot query was made, the
\* shape of what Rubrik.q returned, the edge list read from it, and the UTC date
\* at the moment of the evaluation.
Observation(queried, payload, day) ==
  [queried |-> queried, shape |-> payload.shape, edges |-> SnapshotEdges(payload).edges,
   day |-> day]

\* check_filesets, lines 272-307: one pass of the loop over matches.
CheckFileset ==
  /\ pc = "fs_loop"
  /\ fs_i <= Len(matches)
  /\ LET fs == all_filesets[matches[fs_i]]
     IN  IF fs.snappable_id = ""
         THEN /\ fileset_results' = Append(fileset_results,
                   [server |-> ServerDisplay(fs), type |-> fs.type, cluster |-> fs.cluster,
                    in_rubrik |-> "NO", fileset |-> fs.fileset, last_backup |-> NoStamp,
                    status |-> "NO", snapshot_count |-> 0, sla_domain |-> fs.sla])
              /\ fs_obs' = Append(fs_obs, Observation(FALSE, None, clock))
              /\ fs_i' = fs_i + 1
              /\ UNCHANGED <<pc, exit_code, nsent, ncalls>>
         ELSE \E out \in Outcomes(SnapEdgeSeqs(env)) :
                LET ev == latest_snapshot_after_cutoff(q(out).ret, clock)
                IN  /\ Call(out)
                    /\ IF q(out).escaped \/ ev.raised
                       THEN Abort /\ UNCHANGED <<fileset_results, fs_obs, fs_i>>
                       ELSE /\ fileset_results' = Append(fileset_results,
                                 [server |-> ServerDisplay(fs), type |-> fs.type,
                                  cluster |-> fs.cluster, in_rubrik |-> "YES",
                                  fileset |-> fs.fileset, last_backup |-> ev.dt_str,
                                  status |-> ev.status, snapshot_count |-> ev.count,
                                  sla_domain |-> EntrySla(fs, ev.sla)])
                            /\ fs_obs' = Append(fs_obs,
                                 Observation(TRUE, q(out).ret, clock))
                            /\ fs_i' = fs_i + 1
                            /\ UNCHANGED <<pc, exit_code>>
  /\ UNCHANGED <<env, cfg, shared_lines, clock, fileset_serverlist, snapshot_serverlist,
                 tok, auth_posts, all_filesets, matches, sla_edges, sla_i, idmap, vm_now,
                 vm_i, vm_results, written, fs_report, vm_report, fs_summary, vm_summary,
                 vm_obs, matchVars, queryVars, uiVars>>

\* summarize: total, success and failed as printed.
summarize_by_presence(results) ==
  LET total == Len(results)
      success == Cardinality({i \in 1..Len(results) : results[i].in_rubrik = "YES"})
  IN  [total |-> total, success |-> success, failed |-> total - success, printed |-> TRUE]

summarize(results) ==
  LET total == Len(results)
      success == Cardinality({i \in 1..Len(results) : results[i].status = "YES"})
  IN  [total |-> total, success |-> success, failed |-> total - success, printed |-> TRUE]

\* The report step taken while matches are still waiting to be evaluated.
FilesetReportEarly ==
  /\ pc = "fs_loop"
  /\ fs_summary' = summarize(fileset_results)
  /\ written' = written \cup {"fileset"}
  /\ fs_report' = fileset_results
  /\ pc' = "vm_sla"
  /\ UNCHANGED <<env, cfg, shared_lines, clock, exit_code, fileset_serverlist,
                 snapshot_serverlist, tok, auth_posts, nsent, ncalls, all_filesets,
                 matches, fs_i, fileset_results, sla_edges, sla_i, idmap, vm_now, vm_i,
                 vm_results, vm_report, vm_summary, fs_obs, vm_obs, matchVars, queryVars, uiVars>>

\* main, lines 464-465: summarize and save_results for the fileset results.
FilesetReport ==
  /\ pc = "fs_loop"
  /\ fs_i > Len(matches)
  /\ fs_summary' = summarize(fileset_results)
  /\ written' = written \cup {"fileset"}
  /\ fs_report' = fileset_results
  /\ pc' = "vm_sla"
  /\ UNCHANGED <<env, cfg, shared_lines, clock, exit_code, fileset_serverlist,
                 snapshot_serverlist, tok, auth_posts, nsent, ncalls, all_filesets,
                 matches, fs_i, fileset_results, sla_edges, sla_i, idmap, vm_now, vm_i,
                 vm_results, vm_report, vm_summary, fs_obs, vm_obs, matchVars, queryVars, uiVars>>

\* build_vm_object_index, lines 316-319: the SLA domain list.
VmIndexSla ==
  /\ pc = "vm_sla"
  /\ \E out \in Outcomes(SlaEdges(env)) :
       LET er == EdgesOrRaise(q(out).ret)
       IN  /\ Call(out)
           /\ IF q(out).escaped \/ er.raised
              THEN Abort /\ UNCHANGED <<sla_edges, sla_i>>
              ELSE /\ sla_edges' = er.edges
                   /\ sla_i' = 1
                   /\ pc' = "vm_objs"
                   /\ UNCHANGED exit_code
  /\ UNCHANGED <<env, cfg, shared_lines, clock, fileset_serverlist, snapshot_serverlist,
                 tok, auth_posts, all_filesets, matches, fs_i, fileset_results, idmap,
                 vm_now, vm_i, vm_results, written, fs_report, vm_report, fs_summary,
                 vm_summary, fs_obs, vm_obs, matchVars, queryVars, uiVars>>

\* idmap[name.lower()] = rid for every object edge with a name and an id.
RECURSIVE IndexObjects(_, _)
IndexObjects(map, edges) ==
  IF Len(edges) = 0 THEN map
  ELSE LET node == Head(edges)
           key == Lower(node.name)
           put == [x \in (DOMAIN map) \cup {key} |-> IF x = key THEN node.id ELSE map[x]]
       IN  IndexObjects(IF Len(node.name) = 0 \/ node.id = "" THEN map ELSE put, Tail(edges))

\* build_vm_object_index, lines 321-338: one pass of the loop over SLA domains.
VmIndexObjects ==
  /\ pc = "vm_objs"
  /\ sla_i <= Len(sla_edges)
  /\ IF sla_edges[sla_i].id = ""
     THEN /\ sla_i' = sla_i + 1
          /\ UNCHANGED <<pc, exit_code, nsent, ncalls, idmap>>
     ELSE \E out \in Outcomes(ObjectEdges(env)) :
            LET er == EdgesOrRaise(q(out).ret)
            IN  /\ Call(out)
                /\ IF q(out).escaped \/ er.raised
                   THEN Abort /\ UNCHANGED <<idmap, sla_i>>
                   ELSE /\ idmap' = IndexObjects(idmap, er.edges)
                        /\ sla_i' = sla_i + 1
                        /\ UNCHANGED <<pc, exit_code>>
  /\ UNCHANGED <<env, cfg, shared_lines, clock, fileset_serverlist, snapshot_serverlist,
                 tok, auth_posts, all_filesets, matches, fs_i, fileset_results, sla_edges,
                 vm_now, vm_i, vm_results, written, fs_report, vm_report, fs_summary,
                 vm_summary, fs_obs, vm_obs, matchVars, queryVars, uiVars>>

\* check_vm_snapshots, line 346: now is read once, before the loop over servers.
CheckVmStart ==
  /\ pc = "vm_objs"
  /\ sla_i > Len(sla_edges)
  /\ vm_now' = clock
  /\ vm_i' = 1
  /\ pc' = "vm_loop"
  /\ UNCHANGED <<env, cfg, shared_lines, clock, exit_code, fileset_serverlist,
                 snapshot_serverlist, tok, auth_posts, nsent, ncalls, all_filesets,
                 matches, fs_i, fileset_results, sla_edges, sla_i, idmap, vm_results,
                 written, fs_report, vm_report, fs_summary, vm_summary, fs_obs, vm_obs,
                 matchVars, queryVars, uiVars>>

\* check_vm_snapshots, lines 375-414: the record made from a snapshot payload,
\* with the date read on entry (now); raised when an access raises.
VmRecord(srv, payload, now) ==
  LET se == SnapshotEdges(payload)
      edges == se.edges
      latest == edges[1]
      sla_name == IF latest.sla = "" THEN "N/A" ELSE latest.sla
      snap_dt == ParseSnapshotDate(latest.date)
  IN  IF Len(edges) = 0
      THEN [server |-> srv, in_rubrik |-> "YES", last_backup |-> NoStamp, status |-> "NO",
            snapshot_count |-> 0, sla_domain |-> "N/A"]
      ELSE [server |-> srv, in_rubrik |-> "YES",
            last_backup |-> IF snap_dt.ok THEN Stamp(FALSE, snap_dt.day, snap_dt.hour)
                            ELSE NoStamp,
            status |-> IF snap_dt.ok THEN FreshStatus(now, snap_dt.day) ELSE "NO",
            snapshot_count |-> Len(edges), sla_domain |-> sla_name]

\* check_vm_snapshots, lines 348-419: one pass of the loop over servers.
CheckVm ==
  /\ pc = "vm_loop"
  /\ vm_i <= Len(snapshot_serverlist)
  /\ LET srv == snapshot_serverlist[vm_i]
     IN  IF srv \notin DOMAIN idmap
         THEN /\ vm_results' = Append(vm_results,
                   [server |-> srv, in_rubrik |-> "NO", last_backup |-> NoStamp,
                    status |-> "NO", snapshot_count |-> 0, sla_domain |-> "N/A"])
              /\ vm_obs' = Append(vm_obs, Observation(FALSE, None, clock))
              /\ vm_i' = vm_i + 1
              /\ UNCHANGED <<pc, exit_code, nsent, ncalls>>
         ELSE \E out \in Outcomes(SnapEdgeSeqs(env)) :
                /\ Call(out)
                /\ IF q(out).escaped \/ SnapshotEdges(q(out).ret).raised
                   THEN Abort /\ UNCHANGED <<vm_results, vm_obs, vm_i>>
                   ELSE /\ vm_results' = Append(vm_results, VmRecord(srv, q(out).ret, vm_now))
                        /\ vm_obs' = Append(vm_obs,
                             Observation(TRUE, q(out).ret, clock))
                        /\ vm_i' = vm_i + 1
                        /\ UNCHANGED <<pc, exit_code>>
  /\ UNCHANGED <<env, cfg, shared_lines, clock, fileset_serverlist, snapshot_serverlist,
                 tok, auth_posts, all_filesets, matches, fs_i, fileset_results, sla_edges,
                 sla_i, idmap, vm_now, written, fs_report, vm_report, fs_summary,
                 vm_summary, fs_obs, matchVars, queryVars, uiVars>>

\* main, lines 469-472: summarize and save_results for the VM results; main returns.
VmReport ==
  /\ pc = "vm_loop"
  /\ vm_i > Len(snapshot_serverlist)
  /\ vm_summary' = summarize(vm_results)
  /\ written' = written \cup {"vm"}
  /\ vm_report' = vm_results
  /\ pc' = "done"
  /\ exit_code' = 0
  /\ UNCHANGED <<env, cfg, shared_lines, clock, fileset_serverlist, snapshot_serverlist,
                 tok, auth_posts, nsent, ncalls, all_filesets, matches, fs_i,
                 fileset_results, sla_edges, sla_i, idmap, vm_now, vm_i, vm_results,
                 fs_report, fs_summary, fs_obs, vm_obs, matchVars, queryVars, uiVars>>

\* UTC midnight passes while the run is under way.
Tick ==
  /\ pc \notin {"idle", "done", "exit"}
  /\ \A d \in StartDays : clock < d + MaxTick
  /\ clock' = clock + 1
  /\ UNCHANGED <<env, cfg, shared_lines, pc, exit_code, fileset_serverlist,
                 snapshot_serverlist, tok, auth_posts, nsent, ncalls, all_filesets,
                 matches, fs_i, fileset_results, sla_edges, sla_i, idmap, vm_now, vm_i,
                 vm_results, written, fs_report, vm_report, fs_summary, vm_summary,
                 fs_obs, vm_obs, matchVars, queryVars, uiVars>>

Next ==
  \/ LoadServerLists
  \/ RubrikInit
  \/ FetchWindows
  \/ FetchLinux
  \/ DumpFilesets
  \/ MatchServers
  \/ CheckFileset
  \/ FilesetReport
  \/ VmIndexSla
  \/ VmIndexObjects
  \/ CheckVmStart
  \/ CheckVm
  \/ VmReport
  \/ Tick

Spec == Init /\ [][Next]_vars

SpecFresh == InitFresh /\ [][Next]_vars

\* ------------------------------------------------- the matcher on its own
\* fetch_all_filesets indexes one child the backup system returned, then
\* fuzzy_match is asked whether a requested server name matches the entry.
MatchChildren ==
  {Child("f1", TRUE, n, "", p) : n \in StrUpTo(MaxNameLen), p \in PathFields}
  \cup {Child("f1", FALSE, <<>>, "", p) : p \in PathFields}

InitMatch ==
  /\ RunIdle /\ QueryIdle /\ UiIdle
  /\ m_pc = "index"
  /\ m_server \in StrUpTo(MaxServerLen) \ {<<>>}
  /\ m_child \in MatchChildren
  /\ m_entry = NoEntry
  /\ m_result = FALSE

IndexChild ==
  /\ m_pc = "index"
  /\ m_entry' = FilesetEntry(m_child, "tw", "c1", "WINDOWS_FILESET")
  /\ m_pc' = "match"
  /\ UNCHANGED <<m_server, m_child, m_result, runVars, queryVars, uiVars>>

MatchEntry ==
  /\ m_pc = "match"
  /\ m_result' = fuzzy_match(m_server, m_entry)
  /\ m_pc' = "done"
  /\ UNCHANGED <<m_server, m_child, m_entry, runVars, queryVars, uiVars>>

NextMatch == IndexChild \/ MatchEntry

SpecMatch == InitMatch /\ [][NextMatch]_vars

\* ---------------------------------------------- one query call on its own
InitQuery ==
  /\ RunIdle /\ MatchIdle /\ UiIdle
  /\ q_pc = "call"
  /\ q_out \in Outcomes(SnapEdgeSeqs("fresh"))
  /\ q_res = [ret |-> None, escaped |-> FALSE]
  /\ q_posts = 0

QueryCall ==
  /\ q_pc = "call"
  /\ q_res' = q(q_out)
  /\ q_posts' = q_posts + PostsPerCall(q_out)
  /\ q_pc' = IF q(q_out).escaped THEN "raised" ELSE "returned"
  /\ UNCHANGED <<q_out, runVars, matchVars, uiVars>>

NextQuery == QueryCall

SpecQuery == InitQuery /\ [][NextQuery]_vars

\* ------------------------------------------------ settings screen: actions
\* str.strip() for the blank the model's texts may hold.
RECURSIVE lstrip(_)
lstrip(t) == IF Len(t) > 0 /\ Head(t) = " " THEN lstrip(Tail(t)) ELSE t

RECURSIVE strip(_)
strip(t) ==
  IF Len(t) > 0 /\ t[Len(t)] = " " THEN strip(SubSeq(t, 1, Len(t) - 1)) ELSE lstrip(t)

\* url.rstrip("/") and url.replace("/api", "") for the URLs of UiConfigs.
rstrip_slash(url) ==
  IF url = "http://h/api/" THEN "http://h/api"
  ELSE IF url = "http://w/" THEN "http://w"
  ELSE url

without_api(url) == IF url = "http://h/api" THEN "http://h" ELSE url

\* bool(t) of a Python tuple: true unless the tuple has no element.
TupleTruth(t) == Len(t) > 0

_resolve_wallet_base_url ==
  IF ui_cfg.custom # "" THEN rstrip_slash(ui_cfg.custom)
  ELSE IF rstrip_slash(ui_cfg.WALLET_WEB_URL) # "" THEN rstrip_slash(ui_cfg.WALLET_WEB_URL)
  ELSE IF ui_cfg.backend # "" THEN without_api(rstrip_slash(ui_cfg.backend))
  ELSE ""

\* A thread and the variables its worker closure holds: the token and backend
\* read by the handler, the payload and OTP of a PATCH, the file of an upload or
\* the wallet URL of a wallet link (target); resp is the parsed response, and for
\* an upload the profile it read from storage. posts counts the requests it made,
\* failed tells that its request failed, and shown collects what its scheduled
\* callbacks have put on screen.
Worker(kind, token, backend, payload, otp, target) ==
  [kind |-> kind, pc |-> "start", token |-> token, backend |-> backend,
   payload |-> payload, otp |-> otp, target |-> target, resp |-> EmptyUser,
   posts |-> 0, failed |-> FALSE, shown |-> {}]

\* A callback handed to Clock.schedule_once by thread `by` (0: the UI thread).
Entry(fn, by, user, text) == [fn |-> fn, by |-> by, user |-> user, text |-> text]

Popup(by, text) == Entry("show_popup", by, EmptyUser, text)

\* Something put on screen, and the thread that executed the write: "ui" or
\* "worker".
Shown(what, thread) == [what |-> what, thread |-> thread]

\* show_popup called by a handler on the UI thread.
show_popup(text) == ui_log' = ui_log \cup {Shown(text, "ui")}

\* _populate_user_inputs: apply_inputs is scheduled unless the profile is empty.
_populate_user_inputs(user, by) ==
  IF user = EmptyUser THEN <<>> ELSE <<Entry("apply_inputs", by, user, "")>>

\* refresh_wallet_balance: token and backend are read, the thread is started.
refresh_wallet_balance ==
  Worker("refresh", ui_cfg.token, ui_cfg.backend, NoPayload, <<>>, "")

HasAuth(token, backend) == token # "" /\ backend # ""

on_pre_enter ==
  /\ ~entered
  /\ Len(workers) + 2 <= MaxSpawns
  /\ entered' = TRUE
  /\ profile_image' = IF s_user.profile_image # "" THEN s_user.profile_image
                      ELSE profile_image
  /\ clockq' = clockq \o _populate_user_inputs(s_user, 0)
  /\ workers' = workers \o
       <<refresh_wallet_balance,
         Worker("preload", ui_cfg.token, ui_cfg.backend, NoPayload, <<>>, "")>>
  /\ UNCHANGED <<ui_cfg, s_user, srv_user, _original_upi, _original_paypal,
                 wallet_label, otp_dialog, ui_log, sent, runVars, matchVars, queryVars>>

\* The files the chooser may hold as its selection.
Files == {"f1"}

\* change_profile_picture, select_and_upload with a file selected (with none
\* selected the popup is dismissed and nothing else happens).
select_and_upload ==
  /\ entered /\ ~otp_dialog.open
  /\ Len(workers) < MaxSpawns
  /\ \E file_path \in Files :
       /\ profile_image' = file_path
       /\ workers' = Append(workers, Worker("upload", "", "", NoPayload, <<>>, file_path))
  /\ UNCHANGED <<ui_cfg, entered, s_user, srv_user, _original_upi, _original_paypal,
                 wallet_label, otp_dialog, clockq, ui_log, sent, runVars, matchVars,
                 queryVars>>

\* The texts of name_input, desc_input, upi_input and paypal_input when Save is
\* pressed.
Forms ==
  {Payload(<<" ">>, <<>>, <<"u">>, <<>>), Payload(<<"n", " ">>, <<"d">>, <<"u">>, <<>>),
   Payload(<<>>, <<>>, <<" ", "v">>, <<>>), Payload(<<"n">>, <<>>, <<"u">>, <<"p">>)}

_needs_payment_otp_upi_only(payload) == payload.upi_id # <<>>

_needs_payment_otp(payload) == payload.upi_id # <<>> \/ payload.paypal_id # <<>>

\* _submit_settings: request_payload gets an "otp" key when otp_code is not
\* empty, and the thread is started.
_submit_settings(payload, token, backend, otp_code) ==
  Worker("patch", token, backend, payload, otp_code, "")

IsDigit(text) == text \in {"5"}

\* _prompt_payment_otp with _send_payment_otp_email: the dialog is opened, then
\* either the missing phone number is notified or the OTP thread is started.
_prompt_payment_otp(payload, token, backend) ==
  LET phone == s_user.phone
  IN  IF ~HasAuth(token, backend)
      THEN /\ otp_dialog' = [open |-> TRUE, payload |-> payload,
                             status |-> "Missing auth details for OTP request."]
           /\ UNCHANGED <<workers, clockq>>
      ELSE /\ otp_dialog' = [open |-> TRUE, payload |-> payload, status |-> "Sending OTP"]
           /\ IF ~(phone # "" /\ IsDigit(phone))
              THEN /\ clockq' = Append(clockq,
                         Entry("status_label", 0, EmptyUser, "No registered phone number"))
                   /\ UNCHANGED workers
              ELSE /\ workers' = Append(workers,
                         Worker("otp", token, backend, NoPayload, <<>>, phone))
                   /\ UNCHANGED clockq

save_settings ==
  /\ entered /\ ~otp_dialog.open
  /\ Len(workers) < MaxSpawns
  /\ \E form \in Forms :
       LET upi == strip(form.upi_id)
           paypal == strip(form.paypal_id)
           payload == Payload(strip(form.name), strip(form.description),
                        IF upi # <<>> /\ upi # strip(_original_upi) THEN upi ELSE <<>>,
                        IF paypal # <<>> /\ paypal # strip(_original_paypal)
                        THEN paypal ELSE <<>>)
       IN  IF payload = NoPayload
           THEN /\ show_popup("Nothing to update")
                /\ UNCHANGED <<otp_dialog, workers, clockq>>
           ELSE IF ~HasAuth(ui_cfg.token, ui_cfg.backend)
           THEN /\ show_popup("Missing token or backend.")
                /\ UNCHANGED <<otp_dialog, workers, clockq>>
           ELSE IF _needs_payment_otp(payload)
           THEN /\ _prompt_payment_otp(payload, ui_cfg.token, ui_cfg.backend)
                /\ UNCHANGED ui_log
           ELSE /\ workers' = Append(workers,
                      _submit_settings(payload, ui_cfg.token, ui_cfg.backend, <<>>))
                /\ UNCHANGED <<otp_dialog, clockq, ui_log>>
  /\ UNCHANGED <<ui_cfg, entered, s_user, srv_user, profile_image, _original_upi,
                 _original_paypal, wallet_label, sent, runVars, matchVars, queryVars>>

\* What the user may have typed into the OTP field when pressing Save.
OtpTexts ==
  {<<>>, <<"1", "2", "3">>, <<" ", "1", "2", " ">>, <<" ", "1", "2", "3", "4">>}

\* verify_and_save: the Save button of the OTP dialog.
verify_and_save ==
  /\ otp_dialog.open
  /\ Len(workers) < MaxSpawns
  /\ \E text \in OtpTexts :
       LET otp_code == strip(text)
       IN  IF Len(otp_code) < MinOtpLen
           THEN /\ otp_dialog' = [otp_dialog EXCEPT !.status = "Enter the OTP"]
                /\ UNCHANGED workers
           ELSE /\ otp_dialog' = ClosedDialog
                /\ workers' = Append(workers,
                      _submit_settings(otp_dialog.payload, ui_cfg.token, ui_cfg.backend,
                                       otp_code))
  /\ UNCHANGED <<ui_cfg, entered, s_user, srv_user, profile_image, _original_upi,
                 _original_paypal, wallet_label, clockq, ui_log, sent, runVars,
                 matchVars, queryVars>>

\* open_wallet_portal (recharge and withdraw_coins call it with their reason,
\* which only goes into the URL opened): the test is made on the tuple
\* (token, backend, wallet_url).
open_wallet_portal ==
  /\ entered /\ ~otp_dialog.open
  /\ Len(workers) < MaxSpawns
  /\ LET wallet_url == _resolve_wallet_base_url
     IN  IF ~TupleTruth(<<ui_cfg.token, ui_cfg.backend, wallet_url>>)
         THEN /\ show_popup("Wallet portal not configured")
              /\ UNCHANGED workers
         ELSE /\ workers' = Append(workers,
                    Worker("wallet", ui_cfg.token, ui_cfg.backend, NoPayload, <<>>,
                           wallet_url))
              /\ UNCHANGED ui_log
  /\ UNCHANGED <<ui_cfg, entered, s_user, srv_user, profile_image, _original_upi,
                 _original_paypal, wallet_label, otp_dialog, clockq, sent, runVars,
                 matchVars, queryVars>>

show_wallet_history ==
  /\ entered /\ ~otp_dialog.open
  /\ Len(workers) < MaxSpawns
  /\ IF ~HasAuth(ui_cfg.token, ui_cfg.backend)
     THEN /\ show_popup("Not logged in or backend missing")
          /\ UNCHANGED workers
     ELSE /\ workers' = Append(workers,
                Worker("history", ui_cfg.token, ui_cfg.backend, NoPayload, <<>>, ""))
          /\ UNCHANGED ui_log
  /\ UNCHANGED <<ui_cfg, entered, s_user, srv_user, profile_image, _original_upi,
                 _original_paypal, wallet_label, otp_dialog, clockq, sent, runVars,
                 matchVars, queryVars>>

\* ------------------------------------------------ settings screen: threads
\* Thread i is of this kind and at this point of its worker function.
At(i, kind, at) == workers[i].kind = kind /\ workers[i].pc = at

\* The HTTP request thread i makes (requests.get/post/patch is called once in
\* each worker function, outside any loop).
Request(i, token, backend) ==
  [kind |-> workers[i].kind, token |-> token, backend |-> backend,
   payload |-> workers[i].payload, otp |-> workers[i].otp]

Sends(i, token, backend) == sent' = sent \cup {Request(i, token, backend)}

\* The thread's function returns.
Finish(i, failed, target) ==
  workers' = [workers EXCEPT ![i] = [@ EXCEPT !.pc = "done", !.failed = failed,
                                              !.target = target, !.resp = EmptyUser]]

\* The response has come: the thread goes on with it.
Proceed(i, at, resp, target) ==
  workers' = [workers EXCEPT ![i] = [@ EXCEPT !.pc = at, !.resp = resp,
                                              !.target = target, !.posts = @ + 1]]

Fail(i) ==
  workers' = [workers EXCEPT ![i] = [@ EXCEPT !.pc = "done", !.failed = TRUE,
                                              !.posts = @ + 1]]

\* on_pre_enter's worker, lines 57-72: GET /users/me.
PreloadRequest ==
  \E i \in 1..Len(workers) :
    /\ At(i, "preload", "start")
    /\ IF ~HasAuth(workers[i].token, workers[i].backend)
       THEN Finish(i, FALSE, "") /\ UNCHANGED sent
       ELSE /\ Sends(i, workers[i].token, workers[i].backend)
            /\ \E out \in {"ok", "status", "exc"} :
                 IF out = "ok" THEN Proceed(i, "got", srv_user, "") ELSE Fail(i)
    /\ UNCHANGED <<ui_cfg, entered, s_user, srv_user, profile_image, _original_upi,
                   _original_paypal, wallet_label, otp_dialog, clockq, ui_log, runVars,
                   matchVars, queryVars>>

\* lines 68-70: storage.set_user(user); self._populate_user_inputs(user).
PreloadStore ==
  \E i \in 1..Len(workers) :
    /\ At(i, "preload", "got")
    /\ s_user' = workers[i].resp
    /\ clockq' = clockq \o _populate_user_inputs(workers[i].resp, i)
    /\ Finish(i, FALSE, "")
    /\ UNCHANGED <<ui_cfg, entered, srv_user, profile_image, _original_upi,
                   _original_paypal, wallet_label, otp_dialog, ui_log, sent, runVars,
                   matchVars, queryVars>>

\* refresh_wallet_balance's worker, lines 503-531: GET /users/me; on any failure
\* the label is scheduled with the text "Wallet: 0 coins".
RefreshRequest ==
  \E i \in 1..Len(workers) :
    /\ At(i, "refresh", "start")
    /\ IF ~HasAuth(workers[i].token, workers[i].backend)
       THEN /\ Finish(i, FALSE, "")
            /\ clockq' = Append(clockq, Entry("update_label", i, EmptyUser, "0"))
            /\ UNCHANGED sent
       ELSE /\ Sends(i, workers[i].token, workers[i].backend)
            /\ \E out \in {"ok", "status", "exc"} :
                 IF out = "ok"
                 THEN Proceed(i, "got", srv_user, "") /\ UNCHANGED clockq
                 ELSE /\ Fail(i)
                      /\ clockq' = Append(clockq, Entry("update_label", i, EmptyUser, "0"))
    /\ UNCHANGED <<ui_cfg, entered, s_user, srv_user, profile_image, _original_upi,
                   _original_paypal, wallet_label, otp_dialog, ui_log, runVars,
                   matchVars, queryVars>>

\* lines 514-531: storage.set_user(user), then the label with the balance.
RefreshStore ==
  \E i \in 1..Len(workers) :
    /\ At(i, "refresh", "got")
    /\ s_user' = workers[i].resp
    /\ clockq' = Append(clockq,
         Entry("update_label", i, EmptyUser,
               IF workers[i].resp.wallet_balance # "" THEN workers[i].resp.wallet_balance
               ELSE "0"))
    /\ Finish(i, FALSE, "")
    /\ UNCHANGED <<ui_cfg, entered, srv_user, profile_image, _original_upi,
                   _original_paypal, wallet_label, otp_dialog, ui_log, sent, runVars,
                   matchVars, queryVars>>

\* select_and_upload's worker, lines 108-126: token and backend are read by the
\* thread, the file is posted, and on 200 the thread sets self.profile_image.
UploadPost ==
  \E i \in 1..Len(workers) :
    /\ At(i, "upload", "start")
    /\ IF ~HasAuth(ui_cfg.token, ui_cfg.backend)
       THEN /\ Finish(i, TRUE, "")
            /\ clockq' = Append(clockq, Popup(i, "Upload failed"))
            /\ UNCHANGED <<sent, srv_user, profile_image, ui_log>>
       ELSE /\ Sends(i, ui_cfg.token, ui_cfg.backend)
            /\ \E out \in {"ok", "ok_nourl", "status", "exc"} :
                 IF out \in {"ok", "ok_nourl"}
                 THEN LET new_url == IF out = "ok" THEN "url1" ELSE workers[i].target
                      IN  /\ srv_user' = [srv_user EXCEPT !.profile_image = "url1"]
                          /\ profile_image' = new_url
                          /\ ui_log' = ui_log \cup {Shown("profile_image", "worker")}
                          /\ Proceed(i, "read", EmptyUser, new_url)
                          /\ UNCHANGED clockq
                 ELSE /\ Fail(i)
                      /\ clockq' = Append(clockq, Popup(i, "Upload failed"))
                      /\ UNCHANGED <<srv_user, profile_image, ui_log>>
    /\ UNCHANGED <<ui_cfg, entered, s_user, _original_upi, _original_paypal,
                   wallet_label, otp_dialog, runVars, matchVars, queryVars>>

\* line 128: user = storage.get_user() or {}
UploadRead ==
  \E i \in 1..Len(workers) :
    /\ At(i, "upload", "read")
    /\ workers' = [workers EXCEPT ![i] = [@ EXCEPT !.pc = "write", !.resp = s_user]]
    /\ UNCHANGED <<ui_cfg, entered, s_user, srv_user, profile_image, _original_upi,
                   _original_paypal, wallet_label, otp_dialog, clockq, ui_log, sent,
                   runVars, matchVars, queryVars>>

\* lines 129-131: user["profile_image"] = new_url; storage.set_user(user); popup.
UploadWrite ==
  \E i \in 1..Len(workers) :
    /\ At(i, "upload", "write")
    /\ s_user' = [workers[i].resp EXCEPT !.profile_image = workers[i].target]
    /\ clockq' = Append(clockq, Popup(i, "Profile picture updated!"))
    /\ Finish(i, FALSE, workers[i].target)
    /\ UNCHANGED <<ui_cfg, entered, srv_user, profile_image, _original_upi,
                   _original_paypal, wallet_label, otp_dialog, ui_log, sent, runVars,
                   matchVars, queryVars>>

\* The profile the backend holds after it accepted a PATCH.
Patched(user, payload) ==
  [user EXCEPT !.upi_id = IF payload.upi_id # <<>> THEN payload.upi_id ELSE @,
               !.paypal_id = IF payload.paypal_id # <<>> THEN payload.paypal_id ELSE @]

\* _submit_settings' worker, lines 358-377: PATCH /users/me.
PatchRequest ==
  \E i \in 1..Len(workers) :
    /\ At(i, "patch", "start")
    /\ Sends(i, workers[i].token, workers[i].backend)
    /\ \E out \in {"ok", "status", "exc"} :
         IF out = "ok"
         THEN /\ srv_user' = Patched(srv_user, workers[i].payload)
              /\ Proceed(i, "got", Patched(srv_user, workers[i].payload), "")
              /\ UNCHANGED clockq
         ELSE /\ Fail(i)
              /\ clockq' = Append(clockq,
                   Popup(i, IF out = "status" THEN "Update failed" ELSE "Request failed"))
              /\ UNCHANGED srv_user
    /\ UNCHANGED <<ui_cfg, entered, s_user, profile_image, _original_upi,
                   _original_paypal, wallet_label, otp_dialog, ui_log, runVars,
                   matchVars, queryVars>>

\* lines 368-372: set_user, _populate_user_inputs, the popup and the refresh.
PatchStore ==
  \E i \in 1..Len(workers) :
    /\ At(i, "patch", "got")
    /\ s_user' = workers[i].resp
    /\ clockq' = clockq \o _populate_user_inputs(workers[i].resp, i)
                   \o <<Popup(i, "Settings updated!"),
                        Entry("refresh_wallet_balance", i, EmptyUser, "")>>
    /\ Finish(i, FALSE, "")
    /\ UNCHANGED <<ui_cfg, entered, srv_user, profile_image, _original_upi,
                   _original_paypal, wallet_label, otp_dialog, ui_log, sent, runVars,
                   matchVars, queryVars>>

\* _send_payment_otp_email's worker, lines 322-349: send_otp(phone), then the
\* status label is scheduled with the message.
OtpRequest ==
  \E i \in 1..Len(workers) :
    /\ At(i, "otp", "start")
    /\ Sends(i, workers[i].token, workers[i].backend)
    /\ \E out \in {"ok", "refused", "exc"} :
         /\ IF out = "ok" THEN Proceed(i, "done", EmptyUser, workers[i].target)
            ELSE Fail(i)
         /\ clockq' = Append(clockq,
              Entry("status_label", i, EmptyUser,
                    IF out = "ok" THEN "OTP sent" ELSE "OTP request failed"))
    /\ UNCHANGED <<ui_cfg, entered, s_user, srv_user, profile_image, _original_upi,
                   _original_paypal, wallet_label, otp_dialog, ui_log, runVars,
                   matchVars, queryVars>>

\* open_wallet_portal's worker, lines 403-431: POST /auth/wallet-link. With no
\* backend the URL has no scheme and requests raises before anything is sent.
WalletRequest ==
  \E i \in 1..Len(workers) :
    /\ At(i, "wallet", "start")
    /\ IF workers[i].backend = ""
       THEN /\ Finish(i, TRUE, workers[i].target)
            /\ clockq' = Append(clockq, Popup(i, "Unable to open wallet portal"))
            /\ UNCHANGED sent
       ELSE /\ Sends(i, workers[i].token, workers[i].backend)
            /\ \E out \in {"ok", "ok_notoken", "status", "exc"} :
                 IF out = "ok"
                 THEN /\ Proceed(i, "done", EmptyUser, workers[i].target)
                      /\ clockq' = clockq \o
                           <<Entry("open_browser", i, EmptyUser, workers[i].target),
                             Popup(i, "Wallet site opened in your browser")>>
                 ELSE /\ Fail(i)
                      /\ clockq' = Append(clockq, Popup(i, "Unable to open wallet portal"))
    /\ UNCHANGED <<ui_cfg, entered, s_user, srv_user, profile_image, _original_upi,
                   _original_paypal, wallet_label, otp_dialog, ui_log, runVars,
                   matchVars, queryVars>>

\* show_wallet_history's worker, lines 449-494: GET /wallet/history; with
\* transactions the thread builds the layout, labels, scroll view and popup
\* itself and schedules popup.open().
HistoryRequest ==
  \E i \in 1..Len(workers) :
    /\ At(i, "history", "start")
    /\ Sends(i, workers[i].token, workers[i].backend)
    /\ \E out \in {"ok", "ok_empty", "status", "exc"} :
         IF out = "ok"
         THEN /\ Proceed(i, "done", EmptyUser, "")
              /\ ui_log' = ui_log \cup {Shown("history widgets", "worker")}
              /\ clockq' = Append(clockq, Entry("popup_open", i, EmptyUser, ""))
         ELSE IF out = "ok_empty"
         THEN /\ Proceed(i, "done", EmptyUser, "")
              /\ clockq' = Append(clockq, Popup(i, "No transactions found."))
              /\ UNCHANGED ui_log
         ELSE /\ Fail(i)
              /\ clockq' = Append(clockq, Popup(i, "Failed to fetch history"))
              /\ UNCHANGED ui_log
    /\ UNCHANGED <<ui_cfg, entered, s_user, srv_user, profile_image, _original_upi,
                   _original_paypal, wallet_label, otp_dialog, runVars, matchVars,
                   queryVars>>

\* The Kivy main loop runs the oldest scheduled callback on the UI thread.
ClockRun ==
  /\ clockq # <<>>
  /\ LET e == Head(clockq)
         what == IF e.fn = "show_popup" THEN e.text ELSE e.fn
     IN  /\ clockq' = Tail(clockq)
         /\ _original_upi' = IF e.fn = "apply_inputs" THEN e.user.upi_id
                             ELSE _original_upi
         /\ _original_paypal' = IF e.fn = "apply_inputs" THEN e.user.paypal_id
                                ELSE _original_paypal
         /\ wallet_label' = IF e.fn = "update_label" THEN e.text ELSE wallet_label
         /\ otp_dialog' = IF e.fn = "status_label" /\ otp_dialog.open
                          THEN [otp_dialog EXCEPT !.status = e.text] ELSE otp_dialog
         /\ IF e.fn = "refresh_wallet_balance"
            THEN /\ Len(workers) < MaxSpawns
                 /\ workers' = Append(workers, refresh_wallet_balance)
                 /\ UNCHANGED ui_log
            ELSE /\ ui_log' = ui_log \cup {Shown(what, "ui")}
                 /\ workers' = IF e.by = 0 THEN workers
                               ELSE [workers EXCEPT ![e.by].shown = @ \cup {what}]
  /\ UNCHANGED <<ui_cfg, entered, s_user, srv_user, profile_image, sent, runVars,
                 matchVars, queryVars>>

\* The screen as constructed (__init__, lines 35-38), with what storage and the
\* backend hold for the user: signed in with no profile stored yet, or with a
\* stored profile and the token or the backend URL missing.
InitUI ==
  /\ RunIdle /\ MatchIdle /\ QueryIdle
  /\ ui_cfg \in UiConfigs
  /\ entered = FALSE
  /\ s_user \in {EmptyUser, Profile0}
  /\ (HasAuth(ui_cfg.token, ui_cfg.backend) => s_user = EmptyUser)
  /\ srv_user = Profile0
  /\ profile_image = "assets/default.png"
  /\ _original_upi = <<>> /\ _original_paypal = <<>>
  /\ wallet_label = "" /\ otp_dialog = ClosedDialog
  /\ workers = <<>> /\ clockq = <<>> /\ ui_log = {} /\ sent = {}

NextUI ==
  \/ on_pre_enter
  \/ select_and_upload
  \/ save_settings
  \/ verify_and_save
  \/ open_wallet_portal
  \/ show_wallet_history
  \/ PreloadRequest
  \/ PreloadStore
  \/ RefreshRequest
  \/ RefreshStore
  \/ UploadPost
  \/ UploadRead
  \/ UploadWrite
  \/ PatchRequest
  \/ PatchStore
  \/ OtpRequest
  \/ WalletRequest
  \/ HistoryRequest
  \/ ClockRun

SpecUI == InitUI /\ [][NextUI]_vars

\* ------------------------------------------------------------------ claims
\* The record i of a pipeline was made from a non-empty snapshot list.
HasSnapshot(obs, i) == obs[i].queried /\ Len(obs[i].edges) > 0

\* The newest snapshot's timestamp, parsed as the code parses it.
FirstStamp(obs, i) == ParseSnapshotDate(obs[i].edges[1].date)

\* The UTC calendar date of the instant a timestamp denotes: its wall-clock time
\* less its offset (a timestamp with no offset is read as UTC).
UtcDay(p) == (p.day * 24 + p.hour - p.off) \div 24

FreshByWrittenDate(results, obs) ==
  \A i \in 1..Len(results) :
    (HasSnapshot(obs, i) /\ FirstStamp(obs, i).ok) =>
      LET age == obs[i].day - FirstStamp(obs, i).day
      IN  /\ (age \in {0, 1} => results[i].status = "YES")
          /\ (age >= 2 => results[i].status = "NO")

\* C1: in both pipelines, a record made from a non-empty snapshot list has status
\* "YES" when the newest snapshot's timestamp is dated on the UTC date of the
\* moment that snapshot is evaluated or on the day before, and "NO" when it is
\* dated two or more days before. (The date is the one written in the timestamp.)
C1_FreshAtEvaluation ==
  /\ FreshByWrittenDate(fileset_results, fs_obs)
  /\ FreshByWrittenDate(vm_results, vm_obs)

StatusIffUtcFresh(results, obs) ==
  \A i \in 1..Len(results) :
    results[i].status = "YES" <=>
      /\ HasSnapshot(obs, i)
      /\ FirstStamp(obs, i).ok
      /\ (obs[i].day - UtcDay(FirstStamp(obs, i))) \in {0, 1}

\* C2: every result record has status "YES" if and only if a snapshot exists for
\* it and the current UTC date less the UTC date of the snapshot's instant is 0
\* or 1, whatever the form of the timestamp (offset, no suffix, after now).
C2_StatusIffUtcDateDiff ==
  /\ StatusIffUtcFresh(fileset_results, fs_obs)
  /\ StatusIffUtcFresh(vm_results, vm_obs)

NoSnapshotsGiveNo(results, obs) ==
  \A i \in 1..Len(results) :
    (obs[i].queried /\ Len(obs[i].edges) = 0) =>
      /\ results[i].snapshot_count = 0
      /\ results[i].status = "NO"
      /\ results[i].last_backup = NoStamp

\* C3: a snappable whose snapshot query yields no snapshot (an empty edge list,
\* no connection, or a null query result) gets a record with snapshot count 0,
\* status "NO" and last backup "N/A", in the fileset and in the VM pipeline.
C3_NoSnapshotsGiveNoBackup ==
  /\ NoSnapshotsGiveNo(fileset_results, fs_obs)
  /\ NoSnapshotsGiveNo(vm_results, vm_obs)

\* Both pipelines have made a record from a query that gave no snapshot: the
\* fileset one from a null result, the VM one from an empty edge list, after a
\* fileset record made from a payload without a connection.
C3_Witness ==
  /\ \E i \in 1..Len(fs_obs) : fs_obs[i].queried /\ fs_obs[i].shape = "none"
  /\ \E i \in 1..Len(fs_obs) : fs_obs[i].queried /\ fs_obs[i].shape = "nokey"
  /\ \E i \in 1..Len(vm_obs) :
       vm_obs[i].queried /\ vm_obs[i].shape = "edges" /\ Len(vm_obs[i].edges) = 0

SummaryAddsUp(summary, results) ==
  summary.printed =>
    /\ summary.total = Len(results)
    /\ summary.success = Cardinality({i \in 1..Len(results) : results[i].status = "YES"})
    /\ summary.failed = Cardinality({i \in 1..Len(results) : results[i].status # "YES"})
    /\ summary.success + summary.failed = summary.total

\* C5: the counts summarize reports satisfy current + not-current = total, where
\* total is the number of records, current the number with status "YES" and
\* not-current the number with any other status.
C5_SummaryCountsAddUp ==
  /\ SummaryAddsUp(fs_summary, fs_report)
  /\ SummaryAddsUp(vm_summary, vm_report)

\* A summary was printed over records of both kinds, some found in the backup
\* system and yet not current.
C5_Witness ==
  /\ fs_summary.printed
  /\ fs_summary.success > 0
  /\ fs_summary.failed > 0
  /\ \E i \in 1..Len(fs_report) :
       fs_report[i].in_rubrik = "YES" /\ fs_report[i].status = "NO"

MalformedKeepsCountAndSla(results, obs) ==
  \A i \in 1..Len(results) :
    (HasSnapshot(obs, i) /\ ~FirstStamp(obs, i).ok) =>
      /\ results[i].status = "NO"
      /\ results[i].last_backup = NoStamp
      /\ results[i].snapshot_count = Len(obs[i].edges)
      /\ (obs[i].edges[1].sla # "" => results[i].sla_domain = obs[i].edges[1].sla)

\* C6: when the newest snapshot's timestamp is malformed or absent, the record
\* has status "NO" and last backup "N/A", its snapshot count is the number of
\* snapshots returned and its SLA domain is that snapshot's SLA name when it has
\* one, in the fileset and in the VM pipeline.
C6_MalformedKeepsCountAndSla ==
  /\ MalformedKeepsCountAndSla(fileset_results, fs_obs)
  /\ MalformedKeepsCountAndSla(vm_results, vm_obs)

\* C7: once authentication has succeeded, no failure of a single query aborts
\* the run.
C7_NoAbortAfterAuth == tok # "unset" => pc # "exit"

RecordsOf(report, srv) == {i \in 1..Len(report) : report[i].server = srv}

OnePerServer(report, serverlist) ==
  \A k \in 1..Len(serverlist) : Cardinality(RecordsOf(report, serverlist[k])) = 1

\* C10: each report, once written, holds exactly one record for every requested
\* server of its server list.
C10_OneRecordPerServer ==
  /\ ("fileset" \in written => OnePerServer(fs_report, fileset_serverlist))
  /\ ("vm" \in written => OnePerServer(vm_report, snapshot_serverlist))

\* C4: fuzzy_match(s, e) is true exactly when the lower-cased s is a contiguous
\* substring of e's stored server field or of its path field, and so whenever it
\* is one of the lower-cased name or path names the backup system returned, in
\* whatever case either was written.
C4_FuzzyMatchIsSubstring ==
  m_pc = "done" =>
    LET s == Lower(m_server)
    IN  /\ m_result <=> (PyIn(s, m_entry.server) \/ PyIn(s, m_entry.path))
        /\ (m_child.hasName /\ PyIn(s, Lower(m_child.name))) => m_result
        /\ (m_child.path.kind = "list" /\ PyIn(s, Lower(Join(m_child.path.names))))
             => m_result
        /\ (m_child.path.kind = "dict" /\ Len(m_child.path.names) = 1
              /\ PyIn(s, Lower(m_child.path.names[1]))) => m_result

\* A requested name in upper case matched a longer server name, by the name
\* alone and not by equality.
C4_Witness ==
  /\ m_pc = "done"
  /\ m_result
  /\ m_server = <<"H", "1">>
  /\ m_child.hasName
  /\ m_child.name = <<"a", "H", "1">>
  /\ ~PyIn(Lower(m_server), m_entry.path)

\* C8: Rubrik.q never raises: it returns the parsed body for a 200 response whose
\* body parses and null for every other outcome of the request (a timeout, a
\* connection error, another status, an unparsable body), and sends the request
\* exactly once.
C8_QueryNeverRaises ==
  q_pc # "call" =>
    /\ q_pc = "returned"
    /\ ~q_res.escaped
    /\ q_posts = 1
    /\ q_res.ret =
         IF q_out.exc = "none" /\ q_out.status = 200
            /\ q_out.shape \notin {"unparsable", "jsonnull"}
         THEN [shape |-> q_out.shape, edges |-> q_out.edges]
         ELSE None

\* A response with an error status and a body that parses came back as null.
C8_Witness ==
  /\ q_pc = "returned"
  /\ q_out.exc = "none"
  /\ q_out.status = 500
  /\ q_out.shape = "edges"
  /\ Len(q_out.edges) > 0
  /\ q_res.ret = None

\* The run stopped at start-up: no query was sent and no artifact was written.
StoppedAtStartup(bad) ==
  bad => /\ pc \in {"load", "client", "exit"}
         /\ nsent = 0
         /\ written = {}
         /\ (pc = "exit" => exit_code # 0)

AuthFailed == tok = "unset" /\ auth_posts > 0

NoCredentials == ~cfg.RUBRIK_CLIENT_ID \/ ~cfg.RUBRIK_CLIENT_SECRET

\* The path main reads the shared server list from.
SharedPath == IF cfg.SERVER_LIST_PATH # "" THEN cfg.SERVER_LIST_PATH ELSE DefaultListPath

IndexReturned == pc \in {"dump", "match", "fs_loop", "vm_sla", "vm_objs", "vm_loop", "done"}

\* The passes of the loop over matches made so far that consumed entry i.
RecordsFrom(i) == {j \in 1..Len(fileset_results) : matches[j] = i}

QueriesFor(i) == {j \in 1..Len(fs_obs) : matches[j] = i /\ fs_obs[j].queried}

ConsumedOnce ==
  \A i \in 1..Len(all_filesets) :
    Cardinality(RecordsFrom(i)) <= 1 /\ Cardinality(QueriesFor(i)) <= 1

\* C11: once fetch_all_filesets has returned, no step changes a fileset entry
\* (the index keeps its entries, their fields and their values), and every entry
\* is behind at most one result record and at most one snapshot query.
C11_EntriesImmutableConsumedOnce ==
  [][IndexReturned => (all_filesets' = all_filesets /\ ConsumedOnce')]_vars

\* The record the loop over matches made at position j is attributed to the
\* requested server srv and was made from entry i.
RecordFor(j, i, srv) == matches[j] = i /\ fs_report[j].server = srv

\* C19: in the fileset report, for every requested server s and every fileset
\* entry e that fuzzy_match(s, e) accepts, there is a record made from e whose
\* server field is s, also when several requested servers match the same entry.
C19_RecordNamesMatchingServer ==
  "fileset" \in written =>
    \A k \in 1..Len(fileset_serverlist) : \A i \in 1..Len(all_filesets) :
      fuzzy_match(fileset_serverlist[k], all_filesets[i]) =>
        \E j \in 1..Len(fs_report) : RecordFor(j, i, fileset_serverlist[k])

\* Matching has begun: an entry carries a requested server, or matches is not empty.
MatchingBegun == matches # <<>> \/ \E i \in 1..Len(all_filesets) : all_filesets[i].hasReq

\* matches holds every match of every requested server.
MatchingComplete == matches = MatchLoop(fileset_serverlist, 1, all_filesets, <<>>).matches

\* A VM result exists for every requested server, in the order of the list.
EveryServerHasVmResult ==
  /\ Len(vm_results) = Len(snapshot_serverlist)
  /\ \A k \in 1..Len(vm_results) : vm_results[k].server = snapshot_serverlist[k]

\* C12: the order of the steps of a run. A query is made only after
\* authentication; the audit dump is written after both template queries and
\* before any matching; a snapshot query is made only in or after the loop over
\* matches, which runs with matches complete; the fileset report is written
\* after every match has its record; VM indexing
\* follows the fileset report, VM evaluation follows VM indexing, and the VM
\* report is written after every requested server has its VM result.
C12_StepsInOrder ==
  /\ (ncalls > 0 => tok # "unset" /\ auth_posts = 1)
  /\ ("dump" \in written => ncalls >= 2)
  /\ (MatchingBegun => "dump" \in written)
  /\ (pc = "fs_loop" => MatchingComplete)
  /\ (ncalls > 2 => "dump" \in written /\ pc \in {"fs_loop", "vm_sla", "vm_objs",
                                                  "vm_loop", "done", "exit"})
  /\ ("fileset" \in written =>
        /\ Len(fileset_results) = Len(matches)
        /\ fs_report = fileset_results)
  /\ (sla_edges # <<>> \/ idmap # <<>> \/ pc \in {"vm_objs", "vm_loop", "done"} =>
        "fileset" \in written)
  /\ (vm_results # <<>> \/ pc \in {"vm_loop", "done"} => sla_i > Len(sla_edges))
  /\ ("vm" \in written =>
        /\ "fileset" \in written
        /\ EveryServerHasVmResult
        /\ vm_report = vm_results)

\* A run that went through every step: two servers, matches evaluated with a
\* snapshot query, an indexed VM object, and both reports written.
C12_Witness ==
  /\ pc = "done"
  /\ written = {"dump", "fileset", "vm"}
  /\ Len(fileset_serverlist) = 2
  /\ Len(matches) >= 2
  /\ \E j \in 1..Len(fs_obs) : fs_obs[j].queried
  /\ idmap # <<>>
  /\ \E k \in 1..Len(vm_obs) : vm_obs[k].queried

\* The process has ended inside the fileset flow: authenticated with a token,
\* stopped by an exception before the fileset report was written.
FilesetFlowFailed == tok = "T" /\ pc = "exit" /\ "fileset" \notin written

\* C13: the VM flow does not depend on the fileset flow. Once authentication has
\* succeeded the VM report is written however the fileset flow ends: a process
\* that has ended after an error in the fileset flow has written the VM report.
C13_VmReportDespiteFilesetError == FilesetFlowFailed => "vm" \in written

\* The threads of one kind whose worker function has not returned.
Outstanding(kind) ==
  {i \in 1..Len(workers) : workers[i].kind = kind /\ workers[i].pc # "done"}

\* C14: for each kind of user action of the settings screen (save settings,
\* refresh wallet balance, wallet history, open wallet portal, profile-picture
\* upload, OTP request) at most one background worker is outstanding at any time.
C14_OneWorkerPerAction ==
  \A kind \in {"patch", "refresh", "history", "wallet", "upload", "otp"} :
    Cardinality(Outstanding(kind)) <= 1

\* C15: everything a worker's outcome puts on screen (widget text, popups, the
\* profile_image property, widgets built) is written by the UI thread, from a
\* scheduled callback; no worker thread writes it.
C15_UiWritesOnUiThread == \A e \in ui_log : e.thread = "ui"

\* Thread i made a REST request that failed, and its function has returned.
FailedRequest(i) ==
  /\ workers[i].kind \in {"preload", "refresh", "patch", "upload", "wallet", "history"}
  /\ workers[i].pc = "done"
  /\ workers[i].failed
  /\ workers[i].posts > 0

\* No callback scheduled by thread i is still waiting.
NoPending(i) == \A k \in 1..Len(clockq) : clockq[k].by # i

\* C16: every failed REST request of the settings screen (exception or non-200
\* status) ends with something shown to the user once the callbacks of its
\* worker have run, and no worker sends its request more than once.
C16_FailureShownNoRetry ==
  \A i \in 1..Len(workers) :
    /\ workers[i].posts <= 1
    /\ (FailedRequest(i) /\ NoPending(i) => workers[i].shown # {})

\* The PATCH requests sent so far.
Patches == {r \in sent : r.kind = "patch"}

HasPaymentId(payload) == payload.upi_id # <<>> \/ payload.paypal_id # <<>>

\* C17: a PATCH that carries upi_id or paypal_id carries an otp of at least four
\* characters, one entered in the OTP dialog; a PATCH without a payment
\* identifier carries no otp, and the OTP dialog is open only for a payload with
\* a payment identifier.
C17_PaymentChangeCarriesOtp ==
  /\ \A r \in Patches :
       IF HasPaymentId(r.payload)
       THEN Len(r.otp) >= MinOtpLen /\ r.otp \in {strip(t) : t \in OtpTexts}
       ELSE r.otp = <<>>
  /\ (otp_dialog.open => HasPaymentId(otp_dialog.payload))

\* Both kinds of PATCH were sent: one with a new UPI id and the code typed in
\* the dialog, one with a name only and no otp.
C17_Witness ==
  /\ \E r \in Patches : r.payload.upi_id # <<>> /\ Len(r.otp) >= MinOtpLen
  /\ \E r \in Patches : ~HasPaymentId(r.payload) /\ r.payload.name # <<>> /\ r.otp = <<>>

\* The images written to the stored profile by uploads that succeeded.
Uploaded ==
  {workers[i].target : i \in {k \in 1..Len(workers) :
      workers[k].kind = "upload" /\ workers[k].pc = "done" /\ ~workers[k].failed}}

\* C18: whatever the interleaving of the upload worker with the preload,
\* wallet-refresh and settings-update workers, once every worker has finished
\* the stored profile holds the profile_image a successful upload wrote (or the
\* one the backend holds after it).
C18_UploadedImageKept ==
  ((\A i \in 1..Len(workers) : workers[i].pc = "done") /\ Uploaded # {}) =>
    s_user.profile_image \in Uploaded \cup {srv_user.profile_image}

\* The stored token, the backend URL and the resolved wallet URL are all there.
PortalConfigured ==
  ui_cfg.token # "" /\ ui_cfg.backend # "" /\ _resolve_wallet_base_url # ""

\* C20: a call of open_wallet_portal with the token, the backend URL or the
\* resolved wallet URL missing shows "Wallet portal not configured" and starts no
\* worker and sends nothing; a wallet-link request is sent only with all three.
C20_PortalNeedsConfiguration ==
  [][/\ (open_wallet_portal /\ ~PortalConfigured =>
           /\ workers' = workers
           /\ Shown("Wallet portal not configured", "ui") \in ui_log')
     /\ ((\E r \in sent' : r.kind = "wallet") => PortalConfigured)]_vars

====
